---- MODULE Spec2Model ----
(***************************************************************************)
(* A model of the CauliflowerVest escrow client                            *)
(* (cauliflowervest/client/base_client.py) and of the part of the Tkinter  *)
(* GUI (cauliflowervest/client/mac/tkinter.py) that drives it.             *)
(*                                                                         *)
(* Strings are sequences of one-character strings, so that quoting,        *)
(* unquoting, prefix tests and slicing are computed and not assumed.       *)
(* A JSON document is a sequence of lexical tokens.                        *)
(***************************************************************************)
EXTENDS Integers, Sequences, FiniteSets, TLC

(***************************************************************************)
(* Program constants.                                                      *)
(***************************************************************************)
MAX_TRIES == 5

TRY_DELAY_FACTOR == 5

NOT_FOUND == 404

JSON_PREFIX == <<")", "]", "}", "'", ",", "\n">>

GET_PASSPHRASE_ACTION == "RetrieveSecret"

SET_PASSPHRASE_ACTION == "UploadPassphrase"

FILEVAULT_REQUIRED_PROPERTIES == <<"hdd_serial", "platform_uuid", "serial">>

(***************************************************************************)
(* Bounds of the model.                                                    *)
(***************************************************************************)
\* how often _GetMetadata may be invoked in one behaviour
MaxGetMetadataCalls == 2

\* how many distinct nonces the token endpoint hands out
MaxNonce == 2

\* how often the operator clicks the button of the last page
MaxClicks == 1

(***************************************************************************)
(* Python values.                                                          *)
(***************************************************************************)
\* None where a dict is expected
None == [none |-> TRUE]

\* None where a str is expected (no str of the model is this sequence)
NoneStr == <<"None">>

\* Python truthiness of a dict-or-None: None and {} are falsy
Falsy(d) == d = None \/ DOMAIN d = {}

\* a test of presence only: an empty value passes
DictGetFalsy_AbsentOnly(d, key) == key \notin DOMAIN d

\* dict.get(key, None) followed by `not`: absent, None and '' are falsy
DictGetFalsy(d, key) == key \notin DOMAIN d \/ d[key] = <<>> \/ d[key] = NoneStr

\* d[key] = value on a dict
DictSet(d, key, value) ==
  [k \in DOMAIN d \cup {key} |-> IF k = key THEN value ELSE d[k]]

\* str.startswith
StartsWith(s, prefix) ==
  /\ Len(s) >= Len(prefix)
  /\ \A i \in 1..Len(prefix) : s[i] = prefix[i]

\* s[n:]
SliceFrom(s, n) == IF n >= Len(s) THEN <<>> ELSE SubSeq(s, n + 1, Len(s))

(***************************************************************************)
(* urllib quoting.  The model's alphabet: letters and digits (always       *)
(* safe), and the reserved characters " ", "+", "/", "%".                  *)
(***************************************************************************)
\* urllib.always_safe, restricted to the alphabet of the model
AlwaysSafe == {"a", "b", "c", "o", "p", "v", "U", "R", "1", "2", "3", "_", ".", "-"}

\* '%%%02X' % ord(c) for the reserved characters of the alphabet
HexEscape(c) ==
  CASE c = " " -> <<"%", "2", "0">>
    [] c = "+" -> <<"%", "2", "B">>
    [] c = "/" -> <<"%", "2", "F">>
    [] c = "%" -> <<"%", "2", "5">>
    [] OTHER   -> <<"%", "3", "F">>

\* the character a %XX escape stands for, "" when the model has none
HexChar(h1, h2) ==
  CASE h1 = "2" /\ h2 = "0" -> " "
    [] h1 = "2" /\ h2 = "B" -> "+"
    [] h1 = "2" /\ h2 = "F" -> "/"
    [] h1 = "2" /\ h2 = "5" -> "%"
    [] OTHER                -> ""

RECURSIVE QuoteSafe(_, _)
\* urllib.quote(s, safe)
QuoteSafe(s, safe) ==
  IF s = <<>> THEN <<>>
  ELSE (IF s[1] \in AlwaysSafe \cup safe THEN <<s[1]>> ELSE HexEscape(s[1]))
       \o QuoteSafe(Tail(s), safe)

\* urllib.quote(s): the default safe set is '/'
Quote(s) == QuoteSafe(s, {"/"})

RECURSIVE QuotePlusRec(_)
QuotePlusRec(s) ==
  IF s = <<>> THEN <<>>
  ELSE (IF s[1] = " " THEN <<"+">> ELSE QuoteSafe(<<s[1]>>, {}))
       \o QuotePlusRec(Tail(s))

\* urllib.quote_plus(s), which urllib.urlencode applies to every value
QuotePlus(s) == QuotePlusRec(s)

RECURSIVE Unquote(_)
\* urllib.unquote(s), as the server applies it to a path segment
Unquote(s) ==
  IF s = <<>> THEN <<>>
  ELSE IF s[1] = "%" /\ Len(s) >= 3 /\ HexChar(s[2], s[3]) # ""
       THEN <<HexChar(s[2], s[3])>> \o Unquote(SubSeq(s, 4, Len(s)))
       ELSE <<s[1]>> \o Unquote(Tail(s))

\* urllib.unquote_plus(s), as the server applies it to a query value
UnquotePlus(s) ==
  Unquote([i \in 1..Len(s) |-> IF s[i] = "+" THEN " " ELSE s[i]])

\* urllib.urlencode(parameters): every value quote_plus'ed (the keys of the
\* model need no quoting)
UrlEncode(parameters) == [k \in DOMAIN parameters |-> QuotePlus(parameters[k])]

(***************************************************************************)
(* JSON.  The documents of the model: {"key": "value"}, {}, true, false.   *)
(***************************************************************************)
\* the metadata key under which the passphrase is stored
PASSPHRASE_KEY == <<"p", "a", "s", "s", "p", "h", "r", "a", "s", "e">>

Quot == "\""

\* json.dumps({key: value}) for strings without '"' and '\'
JsonDumpsDict(key, value) ==
  <<"{", Quot>> \o key \o <<Quot, ":", " ", Quot>> \o value \o <<Quot, "}">>

\* json.dumps(b) for a bool
JsonDumpsBool(b) ==
  IF b THEN <<"t", "r", "u", "e">> ELSE <<"f", "a", "l", "s", "e">>

RECURSIVE IndexFrom(_, _, _)
\* the least index >= i of c in s, 0 when there is none
IndexFrom(s, c, i) ==
  IF i > Len(s) THEN 0
  ELSE IF s[i] = c THEN i
  ELSE IndexFrom(s, c, i + 1)

JsonError == [kind |-> "ValueError", dict |-> <<>>, bool |-> FALSE]

\* json.loads(s): a dict (a function on strings), a bool, or ValueError
JsonLoads(s) ==
  IF s = JsonDumpsBool(TRUE) THEN [kind |-> "bool", dict |-> <<>>, bool |-> TRUE]
  ELSE IF s = JsonDumpsBool(FALSE) THEN [kind |-> "bool", dict |-> <<>>, bool |-> FALSE]
  ELSE IF s = <<"{", "}">> THEN [kind |-> "dict", dict |-> <<>>, bool |-> FALSE]
  ELSE IF Len(s) < 2 \/ s[1] # "{" \/ s[2] # Quot THEN JsonError
  ELSE LET q1 == IndexFrom(s, Quot, 3) IN
       IF q1 = 0 \/ Len(s) < q1 + 3 THEN JsonError
       ELSE IF s[q1 + 1] # ":" \/ s[q1 + 2] # " " \/ s[q1 + 3] # Quot THEN JsonError
       ELSE LET q2 == IndexFrom(s, Quot, q1 + 4) IN
            IF q2 = 0 \/ Len(s) # q2 + 1 \/ s[q2 + 1] # "}" THEN JsonError
            ELSE [kind |-> "dict",
                  dict |-> [k \in {SubSeq(s, 3, q1 - 1)} |-> SubSeq(s, q1 + 4, q2 - 1)],
                  bool |-> FALSE]

(***************************************************************************)
(* The inputs of the model.                                                *)
(***************************************************************************)
\* target ids (volume UUIDs); the second needs quoting
Targets == {<<"a", "b", "c">>, <<"a", " ", "+">>}

Passphrases == {<<"p", "1">>, <<"p", "2">>}

Owners == {<<"o">>, <<"o", " ">>}

\* the metadata keys a host can report
MetadataKeys == {"hdd_serial", "platform_uuid", "serial"}

\* the values a host reports for a key
MetadataValues == {<<>>, <<"v">>}

\* every dict over MetadataKeys
AllMachines ==
  UNION {[ks -> MetadataValues] : ks \in SUBSET MetadataKeys}

\* the hosts of the client specification: complete, one key absent, one
\* value empty, nothing reported
Machines ==
  { [k \in MetadataKeys |-> <<"v">>],
    [k \in {"hdd_serial", "platform_uuid"} |-> <<"v">>],
    [k \in MetadataKeys |-> IF k = "platform_uuid" THEN <<>> ELSE <<"v">>],
    [k \in {} |-> <<>>] }

RECURSIVE Orderings(_)
\* every ordering of the set ks, as sequences
Orderings(ks) ==
  IF ks = {} THEN {<<>>}
  ELSE UNION {{<<k>> \o q : q \in Orderings(ks \ {k})} : k \in ks}

\* every duplicate-free REQUIRED_METADATA list over MetadataKeys
RequiredLists == UNION {Orderings(ks) : ks \in SUBSET MetadataKeys}

(***************************************************************************)
(* urllib2 errors and HTTP responses.                                      *)
(***************************************************************************)
NoError == [kind |-> "none", code |-> 0]

URLError == [kind |-> "URLError", code |-> 0]

HTTPError(code) == [kind |-> "HTTPError", code |-> code]

\* the errors a request can end with, besides what the server answers
TransportErrors == {URLError, HTTPError(403), HTTPError(500)}

(***************************************************************************)
(* State.                                                                  *)
(***************************************************************************)
VARIABLES
  required,          \* REQUIRED_METADATA of the client's class
  machine,           \* what _GetMetadata returns on this host
  metadata,          \* self._metadata: None or a dict
  getMetadataCalls,  \* how often _GetMetadata was invoked
  pc,                \* where the client is: "idle", "xsrf", "get", "put"
  call,              \* the running call: its arguments and its xsrf_token
  request,           \* the request object being sent
  try_num,           \* try_num of the running _RetryRequest loop
  sleeps,            \* the time.sleep() arguments of the running loop
  lastError,         \* e, the error of the loop's last failed attempt
  result,            \* how the last call ended
  store,             \* server: the escrowed passphrase of every target
  writes,            \* server: escrow writes applied for the last call begun
  gui                \* the GUI workflow

vars == <<required, machine, metadata, getMetadataCalls, pc, call, request,
          try_num, sleeps, lastError, result, store, writes, gui>>

\* no GUI: the client's operations are called directly
NoGui ==
  [state |-> "none", workflow |-> "none", action |-> "none",
   volume |-> NoneStr, message |-> "none", oauth |-> None,
   rotations |-> 0, backend |-> "none", arg |-> NoneStr, key |-> NoneStr,
   escaped |-> "none", button |-> "none", thread |-> "none", remaining |-> 0,
   label |-> 0, clicks |-> 0, terminals |-> 0]

\* no request built yet
NoRequest ==
  [method |-> "none", url |-> "none", action |-> "none", path |-> <<>>,
   query |-> <<>>, data |-> <<>>]

NoCall ==
  [op |-> "none", target_id |-> NoneStr, passphrase |-> NoneStr,
   retry_4xx |-> FALSE, owner |-> NoneStr, xsrf_token |-> NoneStr,
   uploaded |-> NoneStr]

\* the result of a call; status is "none", "pending", "ok" or "error"
Result(c, status, exc, msg, cause, value, content) ==
  [op |-> c.op, status |-> status, exc |-> exc, msg |-> msg,
   description |-> "none", cause |-> cause,
   value |-> value, content |-> content,
   target_id |-> c.target_id, passphrase |-> c.passphrase,
   owner |-> c.owner,
   retry_4xx |-> FALSE, uploaded |-> c.uploaded, tries |-> 0, slept |-> <<>>]

Pending(c) == Result(c, "pending", "none", "none", NoError, NoneStr, NoneStr)

Ok(c, value, content) == Result(c, "ok", "none", "none", NoError, value, content)

Raised(c, exc, msg, cause, content) ==
  Result(c, "error", exc, msg, cause, NoneStr, content)

NoResult ==
  [op |-> "none", status |-> "none", exc |-> "none", msg |-> "none",
   description |-> "none", cause |-> NoError, value |-> NoneStr, content |-> NoneStr,
   target_id |-> NoneStr, passphrase |-> NoneStr, owner |-> NoneStr,
   retry_4xx |-> FALSE, uploaded |-> NoneStr, tries |-> 0, slept |-> <<>>]

\* a call ends: its locals are gone, its result is there; w is the number
\* of escrow writes the server applied for it
ReturnWith(r, w) ==
  /\ pc' = "idle"
  /\ result' = r
  /\ call' = NoCall
  /\ request' = NoRequest
  /\ try_num' = 0
  /\ sleeps' = <<>>
  /\ lastError' = NoError
  /\ writes' = w

\* a call that sent no PUT ends
Return(r) == ReturnWith(r, 0)

\* the passphrase uploaded for target_id, if the last call was a
\* successful UploadPassphrase for it
LastUpload(target_id) ==
  IF /\ result.op = "UploadPassphrase"
     /\ result.status = "ok"
     /\ result.target_id = target_id
  THEN result.passphrase
  ELSE NoneStr

(***************************************************************************)
(* CauliflowerVestClient.GetAndValidateMetadata and SetOwner.              *)
(***************************************************************************)
RECURSIVE FirstMissing(_, _, _)
\* the for loop of GetAndValidateMetadata: the index of the key it raises
\* MetadataError for, 0 when it raises nothing
FirstMissing(keys, md, i) ==
  IF i > Len(keys) THEN 0
  ELSE IF DictGetFalsy(md, keys[i]) THEN i
  ELSE FirstMissing(keys, md, i + 1)

\* GetAndValidateMetadata on self._metadata = md: the new self._metadata,
\* whether _GetMetadata was invoked, and the key of the MetadataError raised
ValidateMetadata(md) ==
  LET loaded == IF Falsy(md) THEN machine ELSE md
      missing == FirstMissing(required, loaded, 1)
  IN  [metadata |-> loaded,
       fetched  |-> Falsy(md),
       raised   |-> missing # 0,
       key      |-> IF missing # 0 THEN required[missing] ELSE "none"]

\* `if not self._metadata: self.GetAndValidateMetadata()`
ValidateIfUnset(md) ==
  IF Falsy(md) THEN ValidateMetadata(md)
  ELSE [metadata |-> md, fetched |-> FALSE, raised |-> FALSE, key |-> "none"]

\* _GetMetadata can still be invoked within the bound of the model
MayGetMetadata == Falsy(metadata) => getMetadataCalls < MaxGetMetadataCalls

Fetches(v) == getMetadataCalls + (IF v.fetched THEN 1 ELSE 0)

ClientIdle == pc = "idle" /\ gui.state = "none"

GetAndValidateMetadata ==
  /\ ClientIdle
  /\ MayGetMetadata
  /\ LET v == ValidateMetadata(metadata)
         c == [NoCall EXCEPT !.op = "GetAndValidateMetadata"]
     IN  /\ metadata' = v.metadata
         /\ getMetadataCalls' = Fetches(v)
         /\ Return(IF v.raised
                   THEN Raised(c, "MetadataError", v.key, NoError, NoneStr)
                   ELSE Ok(c, NoneStr, NoneStr))
  /\ UNCHANGED <<required, machine, store, gui>>

SetOwner ==
  /\ ClientIdle
  /\ MayGetMetadata
  /\ \E owner \in Owners :
       LET v == ValidateIfUnset(metadata)
           c == [NoCall EXCEPT !.op = "SetOwner", !.owner = owner]
       IN  /\ metadata' = IF v.raised THEN v.metadata
                          ELSE DictSet(v.metadata, "owner", owner)
           /\ getMetadataCalls' = Fetches(v)
           /\ Return(IF v.raised
                     THEN Raised(c, "MetadataError", v.key, NoError, NoneStr)
                     ELSE Ok(c, NoneStr, NoneStr))
  /\ UNCHANGED <<required, machine, store, gui>>

(***************************************************************************)
(* CauliflowerVestClient._RetryRequest.                                    *)
(***************************************************************************)
\* the loop without its 4xx test: a 4xx is retried like any other error
RetryRequest_Retry4xx(e, n, retry_4xx) ==
  IF e = NoError
  THEN [outcome |-> "return", msg |-> "none", sleep |-> 0]
  ELSE IF n = MAX_TRIES - 1
  THEN [outcome |-> "raise", msg |-> "failed permanently", sleep |-> 0]
  ELSE [outcome |-> "retry", msg |-> "none", sleep |-> (n + 1) * TRY_DELAY_FACTOR]

\* the loop with its last-try test off by one: it never gives up in time
RetryRequest_ExtraTry(e, n, retry_4xx) ==
  IF e = NoError
  THEN [outcome |-> "return", msg |-> "none", sleep |-> 0]
  ELSE IF e.kind = "HTTPError" /\ 400 <= e.code /\ e.code < 500 /\ ~retry_4xx
  THEN [outcome |-> "raise", msg |-> "failed", sleep |-> 0]
  ELSE IF n = MAX_TRIES
  THEN [outcome |-> "raise", msg |-> "failed permanently", sleep |-> 0]
  ELSE [outcome |-> "retry", msg |-> "none", sleep |-> (n + 1) * TRY_DELAY_FACTOR]

\* the loop sleeping try_num * TRY_DELAY_FACTOR: no sleep after attempt 0
RetryRequest_SleepTryNum(e, n, retry_4xx) ==
  IF e = NoError
  THEN [outcome |-> "return", msg |-> "none", sleep |-> 0]
  ELSE IF e.kind = "HTTPError" /\ 400 <= e.code /\ e.code < 500 /\ ~retry_4xx
  THEN [outcome |-> "raise", msg |-> "failed", sleep |-> 0]
  ELSE IF n = MAX_TRIES - 1
  THEN [outcome |-> "raise", msg |-> "failed permanently", sleep |-> 0]
  ELSE [outcome |-> "retry", msg |-> "none", sleep |-> n * TRY_DELAY_FACTOR]

\* One pass of the loop body with try_num = n, the attempt ending with error
\* e (NoError: opener.open returned): return the response, raise
\* RequestError, or sleep and go round again.
RetryRequest(e, n, retry_4xx) ==
  IF e = NoError
  THEN [outcome |-> "return", msg |-> "none", sleep |-> 0]
  ELSE IF e.kind = "HTTPError" /\ 400 <= e.code /\ e.code < 500 /\ ~retry_4xx
  THEN [outcome |-> "raise", msg |-> "failed", sleep |-> 0]
  ELSE IF n = MAX_TRIES - 1
  THEN [outcome |-> "raise", msg |-> "failed permanently", sleep |-> 0]
  ELSE [outcome |-> "retry", msg |-> "none", sleep |-> (n + 1) * TRY_DELAY_FACTOR]

\* the loop goes round again: time.sleep, then the next try_num
RetryAgain(e, d) ==
  /\ d.outcome = "retry"
  /\ try_num' = try_num + 1
  /\ sleeps' = Append(sleeps, d.sleep)
  /\ lastError' = e

\* what the loop has done when it ends: its description and retry_4xx, the
\* attempts it made and the sleeps it took
Tried(r, description, retry_4xx) ==
  [r EXCEPT !.description = description, !.retry_4xx = retry_4xx,
            !.tries = try_num + 1, !.slept = sleeps]

\* the loop raises RequestError('<description> failed[ permanently]: e')
RetryRaise(e, d, description, retry_4xx, w) ==
  /\ d.outcome = "raise"
  /\ ReturnWith(Tried(Raised(call, "RequestError", d.msg, e, NoneStr),
                      description, retry_4xx), w)

(***************************************************************************)
(* The server: the token endpoint and the escrow store.                    *)
(***************************************************************************)
NonceChar(n) == CASE n = 1 -> "1" [] n = 2 -> "2" [] OTHER -> "3"

\* the token the endpoint /xsrf-token/<action> answers with
ServerToken(action, nonce) ==
  << CASE action = SET_PASSPHRASE_ACTION -> "U"
       [] action = GET_PASSPHRASE_ACTION -> "R"
       [] OTHER -> "_",
     NonceChar(nonce) >>

\* the target a PUT names, as the server decodes it from the query
ServerPutTarget(req) ==
  IF "volume_uuid" \in DOMAIN req.query
  THEN UnquotePlus(req.query["volume_uuid"]) ELSE NoneStr

\* the escrow store after the server has applied the PUT req
ServerPut(req) ==
  IF ServerPutTarget(req) \in Targets
  THEN [store EXCEPT ![ServerPutTarget(req)] = req.data]
  ELSE store

\* the target a GET names, as the server decodes it from the path
ServerGetTarget(req) == Unquote(req.path)

\* whether the server holds a passphrase for the target of the GET req
ServerHas(req) ==
  /\ ServerGetTarget(req) \in Targets
  /\ store[ServerGetTarget(req)] # NoneStr

\* the JSON document the server answers the GET req with
ServerGetDocument(req) ==
  JsonDumpsDict(PASSPHRASE_KEY, store[ServerGetTarget(req)])

\* the bodies a 200 response can carry for the JSON document doc: the
\* document behind the prefix, and the malformed ones
Bodies(doc) ==
  { JSON_PREFIX \o doc,
    doc,
    SubSeq(JSON_PREFIX, 1, Len(JSON_PREFIX) - 1) \o doc,
    <<>>,
    JSON_PREFIX \o <<"{", "}">>,
    JSON_PREFIX \o <<"<">> }

(***************************************************************************)
(* Requests.                                                               *)
(***************************************************************************)
\* urllib2.Request(self.xsrf_url % action)
XsrfRequest(action) ==
  [method |-> "GET", url |-> "xsrf", action |-> action, path |-> <<>>,
   query |-> <<>>, data |-> <<>>]

\* the request of RetrieveSecret with the target quoted as a query value
GetRequest_QuotePlus(target_id, xsrf_token) ==
  [method |-> "GET", url |-> "escrow", action |-> "none",
   path |-> QuotePlus(target_id),
   query |-> UrlEncode([k \in {"xsrf-token"} |-> xsrf_token]),
   data |-> <<>>]

\* the request of RetrieveSecret
GetRequest(target_id, xsrf_token) ==
  [method |-> "GET", url |-> "escrow", action |-> "none",
   path |-> Quote(target_id),
   query |-> UrlEncode([k \in {"xsrf-token"} |-> xsrf_token]),
   data |-> <<>>]

\* the parameters without the owner
UploadParameters_NoOwner(md, target_id, xsrf_token) ==
  DictSet(DictSet([k \in DOMAIN md \ {"owner"} |-> md[k]],
                  "xsrf-token", xsrf_token), "volume_uuid", target_id)

\* parameters of UploadPassphrase: a copy of the metadata with the token and
\* the target added
UploadParameters(md, target_id, xsrf_token) ==
  DictSet(DictSet(md, "xsrf-token", xsrf_token), "volume_uuid", target_id)

\* PutRequest(url, data=passphrase)
PutRequest(md, target_id, passphrase, xsrf_token) ==
  [method |-> "PUT", url |-> "escrow", action |-> "none", path |-> <<>>,
   query |-> UrlEncode(UploadParameters(md, target_id, xsrf_token)),
   data |-> passphrase]

(***************************************************************************)
(* CauliflowerVestClient.UploadPassphrase and RetrieveSecret.              *)
(***************************************************************************)
\* a call that starts with self._FetchXsrfToken(action)
BeginCall(c, action) ==
  /\ call' = c
  /\ request' = XsrfRequest(action)
  /\ pc' = "xsrf"
  /\ try_num' = 0
  /\ sleeps' = <<>>
  /\ lastError' = NoError
  /\ writes' = 0
  /\ result' = Pending(c)

UploadCall(target_id, passphrase, retry_4xx) ==
  [NoCall EXCEPT !.op = "UploadPassphrase", !.target_id = target_id,
                 !.passphrase = passphrase, !.retry_4xx = retry_4xx]

\* the call also notes the upload it follows, if it follows one
RetrieveCall(target_id) ==
  [NoCall EXCEPT !.op = "RetrieveSecret", !.target_id = target_id,
                 !.uploaded = LastUpload(target_id)]

\* UploadPassphrase fetching its token for the retrieve action
UploadAction_Retrieve == GET_PASSPHRASE_ACTION

\* the action name UploadPassphrase fetches its token for
UploadAction == SET_PASSPHRASE_ACTION

\* the action name RetrieveSecret fetches its token for
RetrieveAction == GET_PASSPHRASE_ACTION

UploadPassphrase ==
  /\ ClientIdle
  /\ MayGetMetadata
  /\ \E target_id \in Targets, passphrase \in Passphrases, retry_4xx \in BOOLEAN :
       BeginCall(UploadCall(target_id, passphrase, retry_4xx), UploadAction)
  /\ UNCHANGED <<required, machine, metadata, getMetadataCalls, store, gui>>

RetrieveSecret ==
  /\ ClientIdle
  /\ \E target_id \in Targets :
       BeginCall(RetrieveCall(target_id), RetrieveAction)
  /\ UNCHANGED <<required, machine, metadata, getMetadataCalls, store, gui>>

\* UploadPassphrase adding the token and the target to self._metadata
\* itself, not to a copy
UploadBuild_NoCopy(xsrf_token) ==
  LET v == ValidateIfUnset(metadata) IN
  /\ metadata' = IF v.raised THEN v.metadata
                 ELSE UploadParameters(v.metadata, call.target_id, xsrf_token)
  /\ getMetadataCalls' = Fetches(v)
  /\ IF v.raised
     THEN Return(Raised(call, "MetadataError", v.key, NoError, NoneStr))
     ELSE /\ pc' = "put"
          /\ call' = [call EXCEPT !.xsrf_token = xsrf_token]
          /\ request' = PutRequest(v.metadata, call.target_id, call.passphrase,
                                   xsrf_token)
          /\ try_num' = 0
          /\ sleeps' = <<>>
          /\ lastError' = NoError
          /\ UNCHANGED <<result, writes>>

\* UploadPassphrase after its token fetch: validate the metadata if there is
\* none, then build the PUT request and enter its retry loop
UploadBuild(xsrf_token) ==
  LET v == ValidateIfUnset(metadata) IN
  /\ metadata' = v.metadata
  /\ getMetadataCalls' = Fetches(v)
  /\ IF v.raised
     THEN Return(Raised(call, "MetadataError", v.key, NoError, NoneStr))
     ELSE /\ pc' = "put"
          /\ call' = [call EXCEPT !.xsrf_token = xsrf_token]
          /\ request' = PutRequest(v.metadata, call.target_id, call.passphrase,
                                   xsrf_token)
          /\ try_num' = 0
          /\ sleeps' = <<>>
          /\ lastError' = NoError
          /\ UNCHANGED <<result, writes>>

\* RetrieveSecret after its token fetch: build the GET request
RetrieveBuild(xsrf_token) ==
  /\ call' = [call EXCEPT !.xsrf_token = xsrf_token]
  /\ request' = GetRequest(call.target_id, xsrf_token)
  /\ pc' = "get"
  /\ lastError' = NoError
  /\ UNCHANGED <<metadata, getMetadataCalls, try_num, sleeps, result, writes>>

\* _FetchXsrfToken: one attempt of its _RetryRequest loop; on success the
\* response body is the token and the calling operation goes on
FetchXsrfToken ==
  /\ pc = "xsrf"
  /\ \E e \in {NoError, HTTPError(NOT_FOUND)} \cup TransportErrors :
       LET d == RetryRequest(e, try_num, FALSE) IN
       \/ /\ d.outcome = "return"
          /\ \E nonce \in 1..MaxNonce :
               IF call.op = "UploadPassphrase"
               THEN UploadBuild(ServerToken(request.action, nonce))
               ELSE RetrieveBuild(ServerToken(request.action, nonce))
       \/ /\ RetryAgain(e, d)
          /\ UNCHANGED <<metadata, getMetadataCalls, pc, call, request, result,
                         writes>>
       \/ /\ RetryRaise(e, d, "Fetching XSRF token", FALSE, 0)
          /\ UNCHANGED <<metadata, getMetadataCalls>>
  /\ UNCHANGED <<required, machine, store, gui>>

\* the PUT of UploadPassphrase: one attempt of its _RetryRequest loop.  The
\* server may have applied the write although the attempt fails (a response
\* lost, a 5xx after the write); a 4xx is a refusal and writes nothing.
UploadAttempt ==
  /\ pc = "put"
  /\ \E e \in {NoError} \cup TransportErrors, applied \in BOOLEAN :
       LET d == RetryRequest(e, try_num, call.retry_4xx) IN
       /\ e = NoError => applied
       /\ (e.kind = "HTTPError" /\ e.code < 500) => ~applied
       /\ store' = IF applied THEN ServerPut(request) ELSE store
       /\ LET w == writes + (IF applied THEN 1 ELSE 0) IN
          \/ /\ d.outcome = "return"
             /\ ReturnWith(Tried(Ok(call, NoneStr, NoneStr),
                                 "Uploading passphrase", call.retry_4xx), w)
          \/ /\ RetryAgain(e, d)
             /\ writes' = w
             /\ UNCHANGED <<pc, call, request, result>>
          \/ RetryRaise(e, d, "Uploading passphrase", call.retry_4xx, w)
  /\ UNCHANGED <<required, machine, metadata, getMetadataCalls, gui>>

\* RetrieveSecret without the test for 404: every error a RequestError
RetrieveSecretResult_No404(c, e, content) ==
  IF e # NoError
  THEN Raised(c, "RequestError", "Failed to retrieve passphrase.", e, NoneStr)
  ELSE IF ~StartsWith(content, JSON_PREFIX)
  THEN Raised(c, "RequestError", "Expected JSON prefix missing.", NoError, content)
  ELSE LET data == JsonLoads(SliceFrom(content, Len(JSON_PREFIX))) IN
       IF data.kind = "ValueError"
       THEN Raised(c, "ValueError", "No JSON object could be decoded", NoError, content)
       ELSE IF data.kind # "dict"
       THEN Raised(c, "TypeError", "object has no attribute '__getitem__'", NoError, content)
       ELSE IF PASSPHRASE_KEY \notin DOMAIN data.dict
       THEN Raised(c, "KeyError", "passphrase", NoError, content)
       ELSE Ok(c, data.dict[PASSPHRASE_KEY], content)

\* RetrieveSecret parsing a body without the prefix as it stands
RetrieveSecretResult_NoPrefixTest(c, e, content) ==
  IF e # NoError
  THEN IF e.kind = "HTTPError" /\ e.code = NOT_FOUND
       THEN Raised(c, "NotFoundError", "Failed to retrieve passphrase.", e, NoneStr)
       ELSE Raised(c, "RequestError", "Failed to retrieve passphrase.", e, NoneStr)
  ELSE LET data == JsonLoads(IF StartsWith(content, JSON_PREFIX)
                             THEN SliceFrom(content, Len(JSON_PREFIX))
                             ELSE content) IN
       IF data.kind = "ValueError"
       THEN Raised(c, "ValueError", "No JSON object could be decoded", NoError, content)
       ELSE IF data.kind # "dict"
       THEN Raised(c, "TypeError", "object has no attribute '__getitem__'", NoError, content)
       ELSE IF PASSPHRASE_KEY \notin DOMAIN data.dict
       THEN Raised(c, "KeyError", "passphrase", NoError, content)
       ELSE Ok(c, data.dict[PASSPHRASE_KEY], content)

\* RetrieveSecret from the response of its GET on: e is the error
\* opener.open raised (NoError: none), content the body read
RetrieveSecretResult(c, e, content) ==
  IF e # NoError
  THEN IF e.kind = "HTTPError" /\ e.code = NOT_FOUND
       THEN Raised(c, "NotFoundError", "Failed to retrieve passphrase.", e, NoneStr)
       ELSE Raised(c, "RequestError", "Failed to retrieve passphrase.", e, NoneStr)
  ELSE IF ~StartsWith(content, JSON_PREFIX)
  THEN Raised(c, "RequestError", "Expected JSON prefix missing.", NoError, content)
  ELSE LET data == JsonLoads(SliceFrom(content, Len(JSON_PREFIX))) IN
       IF data.kind = "ValueError"
       THEN Raised(c, "ValueError", "No JSON object could be decoded", NoError, content)
       ELSE IF data.kind # "dict"
       THEN Raised(c, "TypeError", "object has no attribute '__getitem__'", NoError, content)
       ELSE IF PASSPHRASE_KEY \notin DOMAIN data.dict
       THEN Raised(c, "KeyError", "passphrase", NoError, content)
       ELSE Ok(c, data.dict[PASSPHRASE_KEY], content)

\* the GET of RetrieveSecret, sent once
RetrieveAttempt ==
  /\ pc = "get"
  /\ \E e \in {NoError, HTTPError(NOT_FOUND)} \cup TransportErrors :
       /\ e = NoError => ServerHas(request)
       /\ e = HTTPError(NOT_FOUND) => ~ServerHas(request)
       /\ \E content \in IF e = NoError THEN Bodies(ServerGetDocument(request))
                         ELSE {NoneStr} :
            Return([RetrieveSecretResult(call, e, content) EXCEPT !.tries = 1])
  /\ UNCHANGED <<required, machine, metadata, getMetadataCalls, store, gui>>

(***************************************************************************)
(* CauliflowerVestClient.IsKeyRotationNeeded.                              *)
(***************************************************************************)
\* IsKeyRotationNeeded from the response of its GET on
IsKeyRotationNeededResult(c, e, content) ==
  IF e # NoError
  THEN Raised(c, "RequestError", "Failed to get status.", e, NoneStr)
  ELSE IF ~StartsWith(content, JSON_PREFIX)
  THEN Raised(c, "RequestError", "Expected JSON prefix missing.", NoError, content)
  ELSE LET data == JsonLoads(SliceFrom(content, Len(JSON_PREFIX))) IN
       IF data.kind = "ValueError"
       THEN Raised(c, "ValueError", "No JSON object could be decoded", NoError, content)
       ELSE IF data.kind = "bool"
       THEN Ok(c, IF data.bool THEN <<"True">> ELSE <<"False">>, content)
       ELSE Ok(c, <<"dict">>, content)

\* one GET, sent once, with no token; the server answers with either bool
IsKeyRotationNeeded ==
  /\ ClientIdle
  /\ \E target_id \in Targets,
        e \in {NoError, HTTPError(NOT_FOUND)} \cup TransportErrors,
        needed \in BOOLEAN :
       LET c == [NoCall EXCEPT !.op = "IsKeyRotationNeeded",
                               !.target_id = target_id]
       IN  \E content \in IF e = NoError THEN Bodies(JsonDumpsBool(needed))
                           ELSE {NoneStr} :
             Return([IsKeyRotationNeededResult(c, e, content) EXCEPT !.tries = 1])
  /\ UNCHANGED <<required, machine, metadata, getMetadataCalls, store, gui>>

(***************************************************************************)
(* The client specification: one client, its operations called in any      *)
(* order, against the server and a transport that can fail.                *)
(***************************************************************************)
InitClient ==
  /\ metadata = None
  /\ getMetadataCalls = 0
  /\ pc = "idle"
  /\ call = NoCall
  /\ request = NoRequest
  /\ try_num = 0
  /\ sleeps = <<>>
  /\ lastError = NoError
  /\ result = NoResult
  /\ store = [t \in Targets |-> NoneStr]
  /\ writes = 0
  /\ gui = NoGui

Init ==
  /\ required = FILEVAULT_REQUIRED_PROPERTIES
  /\ machine \in Machines
  /\ InitClient

Next ==
  \/ GetAndValidateMetadata
  \/ SetOwner
  \/ UploadPassphrase
  \/ RetrieveSecret
  \/ IsKeyRotationNeeded
  \/ FetchXsrfToken
  \/ UploadAttempt
  \/ RetrieveAttempt

Spec == Init /\ [][Next]_vars

(***************************************************************************)
(* The GUI workflows: on an encrypted volume Gui.EncryptedVolumePrompt,    *)
(* Gui._EncryptedVolumeAction and Gui._RotateRecoveryKey; on a plain       *)
(* volume Gui._EncryptAuth and Gui._PlainVolumeAction; both with           *)
(* GuiOauth._Authenticate.  gui.state is the page shown, or the escrow     *)
(* call the handler is blocked in.                                         *)
(***************************************************************************)
REVERT_ACTION == "revert"

UNLOCK_ACTION == "unlock"

DISPLAY_ACTION == "display"

ROTATE_KEY_ACTION == "rotate"

\* Gui.ACTIONS (ACTIONS is a reserved word of TLA+)
GuiActions == {REVERT_ACTION, UNLOCK_ACTION, DISPLAY_ACTION, ROTATE_KEY_ACTION}

\* what the OAuth settings and the external flow can be like
OauthEnvs ==
  [client_id : BOOLEAN, client_secret : BOOLEAN, denied : BOOLEAN,
   exchange_fails : BOOLEAN]

\* base_client.GetOauthCredentials: the exception raised, "none" when it
\* returns credentials
GetOauthCredentials(o) ==
  IF ~o.client_id THEN "RuntimeError"
  ELSE IF ~o.client_secret THEN "RuntimeError"
  ELSE IF o.denied THEN "AuthenticationError"
  ELSE IF o.exchange_fails THEN "AuthenticationError"
  ELSE "none"

\* the exceptions `except base_client.Error` catches
ClientErrors ==
  {"UserAbort", "AuthenticationError", "RequestError", "NotFoundError",
   "MetadataError"}

\* glue.ESCROW_FAILED_MESSAGE and glue.ENCRYPTION_FAILED_MESSAGE: two
\* messages of the glue module
ESCROW_FAILED_MESSAGE == "ESCROW_FAILED_MESSAGE"

ENCRYPTION_FAILED_MESSAGE == "ENCRYPTION_FAILED_MESSAGE"

\* what _PlainVolumeAction shows when its UploadPassphrase raised
PlainUploadFailed == ESCROW_FAILED_MESSAGE

\* what _RotateRecoveryKey shows when its UploadPassphrase raised
RotateUploadFailed == ESCROW_FAILED_MESSAGE

\* EncryptedVolumePrompt(error_message): the prompt page
Prompt(message) ==
  [NoGui EXCEPT !.state = "prompt", !.workflow = "encrypted",
                !.message = message]

\* _EncryptAuth(error_message): the authentication page of a plain volume
EncryptAuth(message) ==
  [NoGui EXCEPT !.state = "encryptauth", !.workflow = "plain",
                !.message = message]

\* the page error_func shows: the one the action was started from
ErrorPage(g, message) ==
  IF g.workflow = "plain" THEN EncryptAuth(message) ELSE Prompt(message)

\* ShowFatalError(message): the message and an OK button that quits; the
\* handler returns, its locals are gone
FatalError(g, message) ==
  [g EXCEPT !.state = "fatal", !.message = message, !.key = NoneStr]

\* a page with a success message and an OK button that quits; the handler
\* returns, its locals are gone
Success(g, message) ==
  [g EXCEPT !.state = "done", !.message = message, !.key = NoneStr]

\* the handler ends with the page it last drew left up: it returned
\* silently (exc = "none") or the exception exc left it
Escaped(g, exc) ==
  [g EXCEPT !.state = "stuck", !.escaped = exc, !.key = NoneStr]

\* the client is left as it is
ClientUnchanged ==
  UNCHANGED <<metadata, getMetadataCalls, pc, call, request, try_num, sleeps,
              lastError, result, writes>>

\* the operator is on a page that starts an action
AtPrompt == gui.state \in {"prompt", "encryptauth"} /\ pc = "idle"

\* _EncryptedVolumeAction or _PlainVolumeAction when _Authenticate returns
\* no client: its error_func has shown the error on the page of the prompt
AuthenticateFails ==
  /\ AtPrompt
  /\ \E o \in OauthEnvs :
       LET exc == GetOauthCredentials(o)
           v == ValidateMetadata(None)
       IN  \/ /\ exc # "none"
              /\ gui' = [ErrorPage(gui, exc) EXCEPT !.oauth = o]
              /\ ClientUnchanged
           \/ /\ exc = "none"
              /\ v.raised
              /\ gui' = [ErrorPage(gui, "MetadataError") EXCEPT !.oauth = o]
              /\ metadata' = v.metadata
              /\ getMetadataCalls' = 1
              /\ Return(NoResult)
  /\ UNCHANGED <<required, machine, store>>

\* _Authenticate raises glue.Error: _EncryptedVolumeAction shows it,
\* _PlainVolumeAction returns with the 'Logging in...' page left up
AuthenticateRaises ==
  /\ AtPrompt
  /\ gui' = IF gui.workflow = "plain"
            THEN Escaped([gui EXCEPT !.message = "Logging in...",
                                     !.oauth = None], "none")
            ELSE FatalError([gui EXCEPT !.oauth = None], "glue.Error")
  /\ ClientUnchanged
  /\ UNCHANGED <<required, machine, store>>

\* _Authenticate returning a client with no test of what it got
Authenticated_Unchecked(o, v) ==
  /\ AtPrompt
  /\ metadata' = v.metadata
  /\ getMetadataCalls' = 1

\* _Authenticate returns a new client: GetOauthCredentials returned
\* credentials and the client's metadata is valid
Authenticated(o, v) ==
  /\ AtPrompt
  /\ GetOauthCredentials(o) = "none"
  /\ ~v.raised
  /\ metadata' = v.metadata
  /\ getMetadataCalls' = 1

\* the action starts: the page of its progress message
Doing(o, action, volume_uuid, message) ==
  [gui EXCEPT !.state = "doing", !.action = action, !.volume = volume_uuid,
              !.message = message, !.rotations = 0, !.oauth = o]

\* _EncryptedVolumeAction with the rotate action, up to the escrow call:
\* _RotateRecoveryKey asks the backend for a new recovery key and uploads it
RotateRecoveryKey ==
  /\ gui.state = "prompt"
  /\ \E o \in OauthEnvs, volume_uuid \in Targets :
       /\ Authenticated(o, ValidateMetadata(None))
       /\ LET g == Doing(o, ROTATE_KEY_ACTION, volume_uuid, "Doing")
          IN  \/ \* glue.UpdateEscrowPassphrase raises glue.Error
                 /\ gui' = FatalError(g, "glue.Error")
                 /\ Return(NoResult)
              \/ \E recovery_key \in Passphrases :
                   /\ gui' = [g EXCEPT !.state = "uploading", !.rotations = 1,
                                       !.backend = "rotate",
                                       !.key = recovery_key]
                   /\ BeginCall(UploadCall(volume_uuid, recovery_key, FALSE),
                                UploadAction)
  /\ UNCHANGED <<required, machine, store>>

\* _RotateRecoveryKey once UploadPassphrase has returned or raised
RotateRecoveryKeyDone ==
  /\ gui.state = "uploading"
  /\ pc = "idle"
  /\ gui' = IF result.status = "error"
            THEN IF result.exc \in ClientErrors
                 THEN FatalError(gui, RotateUploadFailed)
                 ELSE Escaped(gui, result.exc)
            ELSE Success(gui, "Key rotated successfully.")
  /\ ClientUnchanged
  /\ UNCHANGED <<required, machine, store>>

\* _PlainVolumeAction up to the escrow call: glue.ApplyEncryption encrypts
\* the volume and returns its id and its recovery token, which is uploaded
ApplyEncryption ==
  /\ gui.state = "encryptauth"
  /\ \E o \in OauthEnvs, volume_uuid \in Targets :
       /\ Authenticated(o, ValidateMetadata(None))
       /\ LET g == Doing(o, "encrypt", volume_uuid, "Applying encryption...")
          IN  \/ \* glue.ApplyEncryption raises glue.Error
                 /\ gui' = FatalError(g, ENCRYPTION_FAILED_MESSAGE)
                 /\ Return(NoResult)
              \/ \E recovery_token \in Passphrases :
                   /\ gui' = [g EXCEPT !.state = "escrowing",
                                       !.backend = "encrypt",
                                       !.key = recovery_token]
                   /\ BeginCall(UploadCall(volume_uuid, recovery_token, FALSE),
                                UploadAction)
  /\ UNCHANGED <<required, machine, store>>

\* Countdown.__init__'s default for seconds
COUNTDOWN_SECONDS == 10

\* the page of a successful encryption: the success message, the button
\* ('Restart now' when Finder runs or ps failed, else 'OK') and the
\* Countdown thread started on that button, with the button's command as
\* its termination_callback
CountdownPage(g, button) ==
  [Success(g, "ENCRYPTION_SUCCESS_MESSAGE")
     EXCEPT !.state = "success", !.button = button, !.thread = "running",
            !.remaining = COUNTDOWN_SECONDS]

\* _PlainVolumeAction once UploadPassphrase has returned or raised
PlainVolumeDone ==
  /\ gui.state = "escrowing"
  /\ pc = "idle"
  /\ \/ /\ result.status = "error"
        /\ gui' = IF result.exc \in ClientErrors
                  THEN FatalError(gui, PlainUploadFailed)
                  ELSE Escaped(gui, result.exc)
     \/ /\ result.status # "error"
        /\ \E button \in {"restart", "quit"} : gui' = CountdownPage(gui, button)
  /\ ClientUnchanged
  /\ UNCHANGED <<required, machine, store>>

\* the command of the button: self._RestartNow or self.root.quit
Terminal(g) ==
  [g EXCEPT !.terminals = @ + 1,
            !.state = IF g.button = "quit" THEN "quit" ELSE "restarting"]

\* Countdown.run: one round of its loop, the label shows the seconds left
CountdownTick ==
  /\ gui.thread = "running"
  /\ gui.remaining > 0
  /\ gui' = [gui EXCEPT !.label = gui.remaining, !.remaining = @ - 1]
  /\ ClientUnchanged
  /\ UNCHANGED <<required, machine, store>>

\* Countdown.run after its loop: self.termination_callback()
CountdownFire ==
  /\ gui.thread = "running"
  /\ gui.remaining = 0
  /\ gui' = [Terminal(gui) EXCEPT !.thread = "finished"]
  /\ ClientUnchanged
  /\ UNCHANGED <<required, machine, store>>

\* the operator clicks the button the countdown runs on
OperatorClick ==
  /\ gui.state \in {"success", "restarting"}
  /\ gui.clicks < MaxClicks
  /\ gui' = [Terminal(gui) EXCEPT !.clicks = @ + 1]
  /\ ClientUnchanged
  /\ UNCHANGED <<required, machine, store>>

\* _EncryptedVolumeAction with another action, up to the escrow call
RetrievePassphrase ==
  /\ gui.state = "prompt"
  /\ \E o \in OauthEnvs, volume_uuid \in Targets,
        action \in GuiActions \ {ROTATE_KEY_ACTION} :
       /\ Authenticated(o, ValidateMetadata(None))
       /\ gui' = [Doing(o, action, volume_uuid, "Doing")
                    EXCEPT !.state = "retrieving"]
       /\ BeginCall(RetrieveCall(volume_uuid), RetrieveAction)
  /\ UNCHANGED <<required, machine, store>>

\* _EncryptedVolumeAction once RetrieveSecret has returned or raised: the
\* backend reverts or unlocks with the passphrase, or the GUI displays it;
\* an exception of the backend is not caught
RetrievePassphraseDone ==
  /\ gui.state = "retrieving"
  /\ pc = "idle"
  /\ \/ /\ result.status = "error"
        /\ gui' = IF result.exc \in ClientErrors
                  THEN FatalError(gui, result.exc)
                  ELSE Escaped(gui, result.exc)
     \/ /\ result.status = "ok"
        /\ gui.action = DISPLAY_ACTION
        /\ gui' = [gui EXCEPT !.state = "display", !.key = result.value,
                              !.message =
                                "Here is the recovery token.  Be careful with it."]
     \/ /\ result.status = "ok"
        /\ gui.action \in {REVERT_ACTION, UNLOCK_ACTION}
        /\ LET g == [gui EXCEPT !.backend = gui.action, !.arg = result.value,
                                !.key = result.value]
           IN  \/ gui' = Success(g, "successfully")
               \/ gui' = Escaped(g, "storage.Error")
  /\ ClientUnchanged
  /\ UNCHANGED <<required, machine, store>>

\* the OK button of a final page: self.root.quit
Quit ==
  /\ gui.state \in {"fatal", "done"}
  /\ gui' = [gui EXCEPT !.state = "quit"]
  /\ ClientUnchanged
  /\ UNCHANGED <<required, machine, store>>

(***************************************************************************)
(* The GUI specification: the operator works the prompt of an encrypted    *)
(* volume or the one of a plain volume; the server may hold passphrases    *)
(* already.                                                                *)
(***************************************************************************)
InitGui ==
  /\ required = FILEVAULT_REQUIRED_PROPERTIES
  /\ machine \in Machines
  /\ metadata = None
  /\ getMetadataCalls = 0
  /\ pc = "idle"
  /\ call = NoCall
  /\ request = NoRequest
  /\ try_num = 0
  /\ sleeps = <<>>
  /\ lastError = NoError
  /\ result = NoResult
  /\ store \in [Targets -> Passphrases \cup {NoneStr}]
  /\ writes = 0
  /\ gui \in {Prompt("none"), EncryptAuth("none")}

NextGui ==
  \/ AuthenticateFails
  \/ AuthenticateRaises
  \/ RotateRecoveryKey
  \/ RotateRecoveryKeyDone
  \/ ApplyEncryption
  \/ PlainVolumeDone
  \/ CountdownTick
  \/ CountdownFire
  \/ OperatorClick
  \/ RetrievePassphrase
  \/ RetrievePassphraseDone
  \/ Quit
  \/ FetchXsrfToken
  \/ UploadAttempt
  \/ RetrieveAttempt

SpecGui == InitGui /\ [][NextGui]_vars

(***************************************************************************)
(* Properties.                                                             *)
(***************************************************************************)
\* an HTTP 4xx response
Is4xx(e) == e.kind = "HTTPError" /\ e.code >= 400 /\ e.code <= 499

\* the client is inside a _RetryRequest loop
InRetryLoop == pc \in {"xsrf", "put"}

\* retry_4xx of the running loop: the token fetch never retries a 4xx
LoopRetry4xx == pc = "put" /\ call.retry_4xx

\* the last call ended inside _RetryRequest
EndedInRetryLoop == result.status \in {"ok", "error"} /\ result.description # "none"

\* the required keys absent from, or empty in, the metadata md
MissingKeys(md) ==
  {i \in 1..Len(required) :
     \/ md = None
     \/ required[i] \notin DOMAIN md
     \/ md[required[i]] = <<>>}

\* C1: UploadPassphrase never sends its PUT request while a key of
\* REQUIRED_METADATA is absent from, or empty in, the client's metadata.
C1_UploadRequiresMetadata == pc = "put" => MissingKeys(metadata) = {}

\* C2: in a rotate-key run the backend rotates the key at most once and the
\* server applies the escrow write of the new passphrase at most once.
C2_RotateAtMostOnce ==
  gui.action = ROTATE_KEY_ACTION => gui.rotations <= 1 /\ writes <= 1

\* C3: with retry_4xx false, an HTTP 4xx response ends _RetryRequest at once
\* with RequestError: the loop never goes round again after one, and no
\* sleep follows it; a 4xx on the first attempt means one attempt, no sleep.
C3_No4xxRetry ==
  /\ (InRetryLoop /\ ~LoopRetry4xx) => ~Is4xx(lastError)
  /\ (EndedInRetryLoop /\ Is4xx(result.cause) /\ ~result.retry_4xx) =>
       /\ result.status = "error"
       /\ result.exc = "RequestError"
       /\ result.msg = "failed"
       /\ Len(result.slept) = result.tries - 1
       /\ (result.tries = 1 => result.slept = <<>>)

\* a 4xx on the third attempt of an upload that does not retry 4xx
C3_Witness ==
  /\ result.description = "Uploading passphrase"
  /\ ~result.retry_4xx
  /\ result.cause = HTTPError(403)
  /\ result.tries = 3
  /\ result.slept = <<5, 10>>

\* C4 (states): _RetryRequest makes at most MAX_TRIES attempts; it goes round
\* again only after a failure; it raises "failed permanently" exactly when
\* the attempt MAX_TRIES failed with an error that is retried, carrying that
\* error, and "failed" only for a 4xx that is not retried.
C4_Bounded ==
  /\ InRetryLoop =>
       /\ try_num < MAX_TRIES
       /\ (try_num > 0 => lastError # NoError)
  /\ EndedInRetryLoop =>
       /\ result.tries >= 1
       /\ result.tries <= MAX_TRIES
       /\ (result.status = "ok" <=> result.cause = NoError)
       /\ (result.msg = "failed permanently" <=>
             /\ result.cause # NoError
             /\ ~(Is4xx(result.cause) /\ ~result.retry_4xx)
             /\ result.tries = MAX_TRIES)
       /\ (result.msg = "failed" <=>
             Is4xx(result.cause) /\ ~result.retry_4xx)
       /\ (result.status = "error" => result.exc = "RequestError")

\* C4 (steps): every step of a loop either ends the loop or is the next
\* attempt, so the loop ends after at most MAX_TRIES attempts.
C4_Progress ==
  (InRetryLoop /\ pc' = pc) => (try_num' = try_num + 1 /\ lastError' # NoError)

\* C4: _RetryRequest terminates after at most MAX_TRIES attempts, retrying
\* every failure but a non-retried 4xx, returning on success and raising a
\* permanent RequestError with the last error after MAX_TRIES failures.
C4_RetryTerminates == [](C4_Bounded) /\ [][C4_Progress]_vars

\* five failed attempts of an upload that retries 4xx, the last one a 4xx
C4_Witness ==
  /\ result.description = "Uploading passphrase"
  /\ result.msg = "failed permanently"
  /\ result.cause = HTTPError(403)
  /\ result.tries = MAX_TRIES

\* the sleeps of a loop that made n failed attempts and goes on
Backoff(n) == [i \in 1..n |-> i * TRY_DELAY_FACTOR]

RECURSIVE Sum(_)
Sum(q) == IF q = <<>> THEN 0 ELSE q[1] + Sum(Tail(q))

\* C5: the sleep after the failed attempt n (0-based) is
\* (n+1) * TRY_DELAY_FACTOR; none precedes the first attempt, none follows
\* the last; five failing attempts sleep 5, 10, 15, 20: 50 seconds.
C5_LinearBackoff ==
  /\ InRetryLoop => sleeps = Backoff(try_num)
  /\ EndedInRetryLoop => result.slept = Backoff(result.tries - 1)
  /\ (EndedInRetryLoop /\ result.msg = "failed permanently") =>
       /\ result.slept = <<5, 10, 15, 20>>
       /\ Sum(result.slept) = 50

\* five attempts of the token fetch, each failing with a connection error
C5_Witness ==
  /\ result.description = "Fetching XSRF token"
  /\ result.msg = "failed permanently"
  /\ result.cause = URLError
  /\ result.tries = 5
  /\ Sum(result.slept) = 50

\* the last call was a RetrieveSecret whose GET failed with an error
RetrieveGetFailed ==
  /\ result.op = "RetrieveSecret"
  /\ result.description = "none"
  /\ result.cause # NoError

\* C6: RetrieveSecret whose GET answers 404 (the server has no record for
\* the target) fails with NotFoundError; every other HTTP or URL error of
\* the GET fails with a RequestError that is no NotFoundError; nothing else
\* raises NotFoundError.
C6_NotFound ==
  /\ RetrieveGetFailed =>
       /\ result.status = "error"
       /\ IF result.cause = HTTPError(NOT_FOUND)
          THEN result.exc = "NotFoundError" /\ store[result.target_id] = NoneStr
          ELSE result.exc = "RequestError"
  /\ result.exc = "NotFoundError" =>
       RetrieveGetFailed /\ result.cause = HTTPError(NOT_FOUND)

\* the secret GET answered 404 although the other target has a passphrase
C6_Witness ==
  /\ RetrieveGetFailed
  /\ result.cause = HTTPError(NOT_FOUND)
  /\ result.exc = "NotFoundError"
  /\ \E t \in Targets : store[t] # NoneStr

\* the last call read a response body
ReadBody ==
  /\ result.op \in {"RetrieveSecret", "IsKeyRotationNeeded"}
  /\ result.content # NoneStr

\* C7: a body that does not start with JSON_PREFIX makes RetrieveSecret and
\* IsKeyRotationNeeded fail with RequestError 'Expected JSON prefix missing.'
\* and return nothing; a value is returned only from a body with the prefix.
C7_PrefixRequired ==
  /\ (ReadBody /\ ~StartsWith(result.content, JSON_PREFIX)) =>
       /\ result.status = "error"
       /\ result.exc = "RequestError"
       /\ result.msg = "Expected JSON prefix missing."
       /\ result.value = NoneStr
  /\ (result.op \in {"RetrieveSecret", "IsKeyRotationNeeded"}
        /\ result.status = "ok") =>
       /\ ReadBody
       /\ StartsWith(result.content, JSON_PREFIX)
  /\ result.msg = "Expected JSON prefix missing." =>
       ReadBody /\ ~StartsWith(result.content, JSON_PREFIX)

\* the body was the JSON document of a passphrase, without the prefix
C7_Witness ==
  /\ result.op = "RetrieveSecret"
  /\ result.msg = "Expected JSON prefix missing."
  /\ result.content = JsonDumpsDict(PASSPHRASE_KEY, <<"p", "2">>)

\* the tokens the server hands out for an action name
ServerTokens(action) == {ServerToken(action, n) : n \in 1..MaxNonce}

\* the action name of the running call
CallAction ==
  IF call.op = "UploadPassphrase" THEN SET_PASSPHRASE_ACTION
  ELSE GET_PASSPHRASE_ACTION

\* C8 (states): a call holds no token before its fetch succeeded and none
\* after it ended; the fetch names the call's own action; the main request
\* carries the token the call holds, one handed out for that action.
C8_TokenOfCall ==
  /\ pc = "idle" => call = NoCall
  /\ pc = "xsrf" =>
       /\ call.op \in {"UploadPassphrase", "RetrieveSecret"}
       /\ call.xsrf_token = NoneStr
       /\ request.url = "xsrf"
       /\ request.action = CallAction
  /\ pc \in {"put", "get"} =>
       /\ call.op = (IF pc = "put" THEN "UploadPassphrase" ELSE "RetrieveSecret")
       /\ request.url = "escrow"
       /\ call.xsrf_token \in ServerTokens(CallAction)
       /\ UnquotePlus(request.query["xsrf-token"]) = call.xsrf_token

\* C8 (steps): the main request is built only by the step in which the
\* call's token fetch succeeds, with a token answered to that fetch.
C8_AfterFetch ==
  (pc' \in {"put", "get"} /\ pc' # pc) =>
    /\ pc = "xsrf"
    /\ call'.xsrf_token \in ServerTokens(request.action)

\* C8: every UploadPassphrase and RetrieveSecret call fetches a new token for
\* its own action name; its main request is sent only after that fetch
\* succeeded and carries exactly the token the fetch returned.
C8_FreshToken == [](C8_TokenOfCall) /\ [][C8_AfterFetch]_vars

\* a PUT about to be sent with the second token of the upload action
C8_Witness ==
  /\ pc = "put"
  /\ call.xsrf_token = ServerToken(SET_PASSPHRASE_ACTION, 2)
  /\ request.query["xsrf-token"] = <<"U", "2">>

\* the last call was a RetrieveSecret right after a successful
\* UploadPassphrase for the same target, and its GET was answered
RetrievedAfterUpload ==
  /\ result.op = "RetrieveSecret"
  /\ result.uploaded # NoneStr
  /\ result.description = "none"
  /\ result.status \in {"ok", "error"}

\* C9: a successful UploadPassphrase(target, p) followed by
\* RetrieveSecret(target) returns p: the server has a record (no 404), and a
\* returned value is the passphrase of the latest upload for the target.
C9_RoundTrip ==
  RetrievedAfterUpload =>
    /\ result.exc # "NotFoundError"
    /\ (result.status = "ok" => result.value = result.uploaded)
    /\ store[result.target_id] = result.uploaded

\* the second passphrase comes back for the target that needs quoting
C9_Witness ==
  /\ RetrievedAfterUpload
  /\ result.status = "ok"
  /\ result.target_id = <<"a", " ", "+">>
  /\ result.value = <<"p", "2">>
  /\ result.uploaded = <<"p", "2">>

(***************************************************************************)
(* The validation specification: GetAndValidateMetadata and SetOwner on    *)
(* every host and every list of required keys.                             *)
(***************************************************************************)
InitValidate ==
  /\ required \in RequiredLists
  /\ machine \in AllMachines
  /\ InitClient

NextValidate ==
  \/ GetAndValidateMetadata
  \/ SetOwner

SpecValidate == InitValidate /\ [][NextValidate]_vars

\* C10: GetAndValidateMetadata raises MetadataError if and only if a
\* required key is absent or empty, and names the first such key in the
\* order of the list.
C10_ValidateIff ==
  result.op = "GetAndValidateMetadata" =>
    LET bad == MissingKeys(metadata) IN
    /\ result.status = "error" <=> bad # {}
    /\ result.status = "error" =>
         /\ result.exc = "MetadataError"
         /\ result.msg = required[CHOOSE i \in bad : \A j \in bad : i <= j]

\* two required keys fail, one absent and one empty; the first of the list
\* is named, which is not the first in alphabetical order
C10_Witness ==
  /\ result.op = "GetAndValidateMetadata"
  /\ required = <<"serial", "platform_uuid", "hdd_serial">>
  /\ "platform_uuid" \in DOMAIN metadata
  /\ metadata["platform_uuid"] = <<"v">>
  /\ "serial" \in DOMAIN metadata
  /\ metadata["serial"] = <<>>
  /\ "hdd_serial" \notin DOMAIN metadata
  /\ result.msg = "serial"

\* the exceptions the escrow operations are said to report failures with
ReportedErrors ==
  {"RequestError", "NotFoundError", "MetadataError", "AuthenticationError"}

\* C11: every failure of RetrieveSecret, UploadPassphrase and
\* IsKeyRotationNeeded is a RequestError, NotFoundError, MetadataError or
\* AuthenticationError: no raw transport or parsing error leaves the client.
C11_ErrorMapping ==
  /\ result.op \in {"RetrieveSecret", "UploadPassphrase", "IsKeyRotationNeeded"}
  /\ result.status = "error"
  => result.exc \in ReportedErrors

\* the rotate-key run ended in the error page of a failed upload: the
\* backend had rotated the key
RotatedNotEscrowed ==
  /\ gui.state = "fatal"
  /\ gui.action = ROTATE_KEY_ACTION
  /\ gui.backend = "rotate"

\* C12: when the backend rotation succeeded and the upload that follows
\* fails, the error shown differs from the one shown for an upload that
\* failed with no rotation before it (the one of the plain-volume workflow).
C12_RotationFailureDistinct ==
  RotatedNotEscrowed => gui.message # PlainUploadFailed

\* the plain-volume run ended in the error page of a failed upload: the
\* backend had encrypted the volume
EncryptedNotEscrowed ==
  /\ gui.state = "fatal"
  /\ gui.workflow = "plain"
  /\ gui.backend = "encrypt"

\* C13: when the backend encryption succeeded and the upload fails, the
\* workflow ends in an error state whose report differs from the one of a
\* failed encryption, and it still holds the generated passphrase.
C13_EncryptedNotEscrowed ==
  EncryptedNotEscrowed =>
    /\ gui.message # ENCRYPTION_FAILED_MESSAGE
    /\ gui.key \in Passphrases

\* the credential step of the last action invocation ran in an environment
\* where a setting is unset, the flow was denied or the exchange failed
CredentialStepFailed ==
  /\ gui.oauth # None
  /\ \/ ~gui.oauth.client_id
     \/ ~gui.oauth.client_secret
     \/ gui.oauth.denied
     \/ gui.oauth.exchange_fails

\* C14: the credential step fails with AuthenticationError when the flow
\* reports a denial, when the client identifier or secret is unset and when
\* the token exchange fails; it returns credentials in no such case.
C14_AuthenticationError ==
  CredentialStepFailed =>
    /\ gui.state \in {"prompt", "encryptauth"}
    /\ gui.message = "AuthenticationError"

\* the XSRF token a PUT request carries, as sent in its query
TokenSent(req) == req.query["xsrf-token"]

\* the retry loop of UploadPassphrase sends its request again
UploadSentAgain == pc = "put" /\ pc' = "put" /\ try_num' = try_num + 1

\* C15 (steps): when the retry loop sends the upload again after a failed
\* attempt, the new attempt carries a token that differs from the one of
\* the failed attempt
C15_NewTokenOnRetry == UploadSentAgain => TokenSent(request') # TokenSent(request)

\* C15: no two PUT attempts of one UploadPassphrase call carry the same
\* XSRF token: every retry carries a freshly fetched one.
C15_FreshTokenPerAttempt == [][C15_NewTokenOnRetry]_vars

\* a transient failure: a connection error or an HTTP 5xx
Transient(e) == e.kind = "URLError" \/ (e.kind = "HTTPError" /\ e.code >= 500)

\* the last call was a RetrieveSecret or an IsKeyRotationNeeded that failed
\* because its own GET met a transient failure
GetFailedTransient ==
  /\ result.op \in {"RetrieveSecret", "IsKeyRotationNeeded"}
  /\ result.status = "error"
  /\ result.description = "none"
  /\ Transient(result.cause)

\* C16: the secret GET of RetrieveSecret and the status GET of
\* IsKeyRotationNeeded go through the retry policy: the operation fails on
\* a transient failure only after MAX_TRIES attempts.
C16_GetRetried == GetFailedTransient => result.tries = MAX_TRIES

\* the pages an action is started from
Prompts == {"prompt", "encryptauth"}

\* a backend action or an escrow call has been started in this run
Executed ==
  \/ gui.action # "none"
  \/ gui.backend # "none"
  \/ pc # "idle"
  \/ result.op # "none"
  \/ writes > 0

\* the last _Authenticate got credentials and its client's metadata passed
AuthenticationPassed ==
  /\ gui.oauth # None
  /\ ~CredentialStepFailed
  /\ metadata # None
  /\ MissingKeys(metadata) = {}

PastRetrieve ==
  /\ gui.action \in {UNLOCK_ACTION, REVERT_ACTION}
  /\ gui.state # "retrieving"
  /\ result.op = "RetrieveSecret"

WorkflowFailed ==
  \/ gui.state = "stuck"
  \/ /\ pc = "idle"
     /\ result.status = "error"
     /\ gui.state \notin {"uploading", "escrowing", "retrieving"}

\* an error is on the screen, or was when the operator pressed OK
ErrorShown ==
  \/ gui.state \in {"fatal", "quit"}
  \/ gui.state \in Prompts /\ gui.message # "none"

\* C19: every failure of authentication, client construction, backend
\* action or escrow call leads to a state in which an error is reported to
\* the operator: the workflow never stops on a failure with no error shown.
C19_NoSilentFailure == WorkflowFailed => ErrorShown

\* a step that is a call of SetOwner
SetOwnerStep == pc = "idle" /\ pc' = "idle" /\ result'.op = "SetOwner"

\* the metadata SetOwner works on: what is loaded, or what it fetches
SetOwnerBase == IF Falsy(metadata) THEN machine ELSE metadata

\* C20 (steps): SetOwner sends nothing; with no metadata loaded it
\* validates first and raises MetadataError, leaving the owner unset, iff a
\* required key is missing; else it sets the owner and nothing else; no
\* other operation changes the metadata of a client that has an owner
C20_SetOwnerStep ==
  /\ SetOwnerStep =>
       /\ request' = NoRequest /\ store' = store /\ writes' = 0
       /\ Falsy(metadata) =>
            (result'.status = "error" <=> MissingKeys(machine) # {})
       /\ ~Falsy(metadata) => result'.status = "ok"
       /\ result'.status = "error" =>
            /\ result'.exc = "MetadataError"
            /\ "owner" \notin DOMAIN metadata'
       /\ result'.status = "ok" =>
            /\ metadata' = DictSet(SetOwnerBase, "owner", result'.owner)
            /\ result'.owner \in Owners
  /\ (~SetOwnerStep /\ metadata # None /\ "owner" \in DOMAIN metadata) =>
       metadata' = metadata

\* C20 (states): the PUT of UploadPassphrase sends every metadata entry,
\* the owner among them, as it is in the client's metadata
C20_OwnerSent ==
  pc = "put" =>
    \A k \in DOMAIN metadata :
      /\ k \in DOMAIN request.query
      /\ UnquotePlus(request.query[k]) = metadata[k]

\* C20: SetOwner issues no network request, validates first when no
\* metadata is loaded and leaves the owner unset when that raises; after a
\* successful SetOwner(o) the next UploadPassphrase sends owner = o among
\* its query parameters, the other metadata entries unchanged.
C20_SetOwner == [](C20_OwnerSent) /\ [][C20_SetOwnerStep]_vars

\* an upload is sending the owner set by a SetOwner before it
C20_Witness ==
  /\ pc = "put"
  /\ "owner" \in DOMAIN metadata
  /\ metadata["owner"] = <<"o", " ">>
  /\ UnquotePlus(request.query["owner"]) = <<"o", " ">>

\* C21: over any sequence of GetAndValidateMetadata, SetOwner and
\* UploadPassphrase calls on one client, _GetMetadata is invoked at most
\* once, whatever map it returned and whether or not validation passed.
C21_GatheredOnce == getMetadataCalls <= 1

\* C22: after a successful encryption the terminal transition (restart or
\* quit) is triggered exactly once over every interleaving of the Countdown
\* thread and the operator's click: never a second time, and it has been
\* triggered once the countdown has finished.
C22_TerminalOnce ==
  /\ gui.terminals <= 1
  /\ gui.thread = "finished" => gui.terminals = 1

\* a step of an UploadPassphrase call: its start or a step inside it
UploadStep ==
  \/ pc \in {"xsrf", "put"} /\ call.op = "UploadPassphrase"
  \/ pc = "idle" /\ call'.op = "UploadPassphrase"

\* the keys UploadPassphrase adds for the request
RequestKeys == {"xsrf-token", "volume_uuid"}

\* neither the XSRF token nor the volume_uuid is in the stored metadata
NoRequestKeysStored ==
  metadata # None => DOMAIN metadata \cap RequestKeys = {}

\* the query of a PUT is the stored metadata with the token and the target
\* of the call that sends it
QueryOfThisCall ==
  pc = "put" =>
    /\ DOMAIN request.query = DOMAIN metadata \cup RequestKeys
    /\ UnquotePlus(request.query["volume_uuid"]) = call.target_id
    /\ UnquotePlus(request.query["xsrf-token"]) = call.xsrf_token

\* C23 (as stated): UploadPassphrase leaves the client's stored metadata
\* unchanged, whether it succeeds or fails; the XSRF token and the
\* volume_uuid never appear in the stored metadata nor in the query of a
\* later upload for another target.
C23_MetadataUnchanged ==
  /\ [](NoRequestKeysStored /\ QueryOfThisCall)
  /\ [][UploadStep => metadata' = metadata]_vars

\* C23 (steps): a step of UploadPassphrase changes the stored metadata only
\* by loading what _GetMetadata returns, and only when none is loaded
C23_LoadOnly ==
  UploadStep =>
    \/ metadata' = metadata
    \/ Falsy(metadata) /\ metadata' = machine

\* C23: UploadPassphrase changes the stored metadata in one way only:
\* when none is loaded (None or empty) it loads it, whether validation then
\* passes or fails; loaded metadata is left unchanged.  The XSRF token and
\* the volume_uuid go to a copy: neither is ever in the stored metadata
\* nor in the query of a later upload for another target.
C23_MetadataLoadedOnly ==
  /\ [](NoRequestKeysStored /\ QueryOfThisCall)
  /\ [][C23_LoadOnly]_vars

\* an upload for one target is being sent after one for the other target
\* was applied, from metadata the client has loaded
C23_Witness ==
  /\ pc = "put"
  /\ call.target_id = <<"a", " ", "+">>
  /\ store[<<"a", "b", "c">>] # NoneStr
  /\ metadata = machine

====
